---- MODULE Spec2Model ----
(***************************************************************************)
(* A model of roomserver/storage/sqlite3/storage.go (dendrite): the        *)
(* Database type, its identifier registry (assign*NID), the event store    *)
(* (StoreEvent, Events), the state snapshot store (AddState), the room     *)
(* frontier session (roomRecentEventsUpdater) and the membership session   *)
(* (membershipUpdater).                                                    *)
(*                                                                         *)
(* The prepared statements of d.statements, common.WithTransaction and     *)
(* the relational engine are not part of storage.go.  They are modelled    *)
(* from the written specification: a store of tables with unique keys,     *)
(* read-committed transactions whose writes stay private until Commit, an  *)
(* insert that reports "no rows" on a uniqueness conflict, and a           *)
(* statement run with a nil *sql.Tx executing on its own, outside every    *)
(* transaction.                                                            *)
(***************************************************************************)
EXTENDS Integers, Sequences, FiniteSets, TLC

\* ------------------------------------------------------------------ bounds
NProcs == 2        \* concurrent callers (goroutines)
MaxCalls == 3      \* AddState calls made in one run
MaxStatements == 5 \* statements one assign call may run before it is cut off

Procs == 1..NProcs
Nil == 0           \* the nil *sql.Tx: the statement runs on its own

\* ------------------------------------------------------------------ inputs
Strs == {"a", "b"}                      \* strings handed to the registries
RegTables == {"rooms", "types", "keys"}  \* the three identifier registries

VARIABLES
  store,   \* the relational store: committed tables, open transactions, sequences
  pc,      \* pc[p]: the position of caller p inside the call it is running
  loc,     \* loc[p]: the local variables of that call
  fs,      \* fs[p]: the roomRecentEventsUpdater caller p holds, if any
  ms,      \* ms[p]: the membershipUpdater caller p holds, if any
  calls,   \* history: the AddState calls made so far, with what they returned
  ghost    \* history: what has been stored and returned so far

vars == <<store, pc, loc, fs, ms, calls, ghost>>


\* ------------------------------------------------------------------ the store
\* Every table has a unique key; a row that does not exist holds the table's
\* "no row" value.  NIDs come from per-table sequences that are never handed
\* out twice.
EventIDs == {"$e1", "$e2"}
TxnKeys == {"t1"}
MaxEventNID == Cardinality(EventIDs)   \* one EventNID per event id

\* The events the callers store.  An event is fixed by its id: its room, type,
\* optional state key ("-" stands for the nil *string of a message event),
\* sender, and whether gomatrixserverlib.NewEventFromUntrustedJSON accepts its
\* JSON.
NoStateKey == "-"
EvRoom(e) == "a"
EvType(e) == IF e = "$e1" THEN "a" ELSE "b"
EvStateKey(e) == IF e = "$e1" THEN NoStateKey ELSE "b"
EvSender(e) == "a"
EvJSON(e) == IF e = "$e1" THEN "wf" ELSE "bad"

PrevRefs == {"$e1"}                    \* events referenced as previous events
MaxRoomNID == Cardinality(Strs)        \* one RoomNID per room id
MaxKeyNID == Cardinality(Strs)         \* one EventStateKeyNID per state key
InviteIDs == {"$i1"}                   \* invite events
MemberEventIDs == {"$e2", "$x"}        \* join and leave events; $x is never stored

Tables == {"rooms", "types", "keys", "events", "json", "txns", "blocks", "snaps", "prev",
           "members", "invites"}
SeqTables == {"rooms", "types", "keys", "events", "blocks", "snaps"}

NoRoom == [nid |-> 0, latest |-> <<>>, lastSent |-> 0, snap |-> 0]
NoEvent == [nid |-> 0, room |-> 0, type |-> 0, key |-> 0, stateNID |-> 0, sent |-> FALSE]
NoSnapshot == [room |-> 0, blocks |-> <<>>]
NoMembership == [state |-> "", sender |-> 0, eventNID |-> 0]
NoInvite == [room |-> 0, target |-> 0, sender |-> 0, retired |-> FALSE]

EmptyDB ==
  [rooms  |-> [k \in Strs |-> NoRoom],
   types  |-> [k \in Strs |-> 0],
   keys   |-> [k \in Strs |-> 0],
   events |-> [e \in EventIDs |-> NoEvent],
   json   |-> [n \in 0..MaxEventNID |-> ""],
   txns   |-> [k \in TxnKeys |-> ""],
   blocks |-> [n \in 1..MaxCalls |-> <<>>],
   snaps  |-> [n \in 1..MaxCalls |-> NoSnapshot],
   prev   |-> [k \in PrevRefs \X (1..MaxEventNID) |-> FALSE],
   members |-> [k \in (1..MaxRoomNID) \X (1..MaxKeyNID) |-> NoMembership],
   invites |-> [i \in InviteIDs |-> NoInvite]]

NoWrites == [tbl \in Tables |-> <<>>]

InitStore ==
  [db   |-> EmptyDB,
   txw  |-> [p \in Procs |-> NoWrites],
   open |-> {},
   seq  |-> [tbl \in SeqTables |-> 0]]

\* What a statement run on transaction t reads: t's own pending write of the
\* row if it has one, the committed row otherwise (always, when t is nil).
Rd(S, t, tbl, k) ==
  IF t # Nil /\ k \in DOMAIN S.txw[t][tbl] THEN S.txw[t][tbl][k] ELSE S.db[tbl][k]

\* A write of row k has to wait while another open transaction holds a
\* pending write of that row.
Free(S, t, tbl, k) == \A q \in Procs : q # t => k \notin DOMAIN S.txw[q][tbl]

\* A write: pending in transaction t, or committed at once when t is nil.
Wr(S, t, tbl, k, v) ==
  IF t = Nil THEN [S EXCEPT !.db[tbl][k] = v]
             ELSE [S EXCEPT !.txw[t][tbl] = (k :> v) @@ @]

Begin(S, t) == [S EXCEPT !.open = @ \cup {t}]

TxCommit(S, t) ==
  [S EXCEPT !.db = [tbl \in Tables |-> [k \in DOMAIN S.db[tbl] |-> Rd(S, t, tbl, k)]],
            !.txw[t] = NoWrites,
            !.open = @ \ {t}]

TxRollback(S, t) == [S EXCEPT !.txw[t] = NoWrites, !.open = @ \ {t}]

\* ------------------------------------------------------------------ statements of the registries
NidOfRow(tbl, row) == IF tbl = "rooms" THEN row.nid ELSE row

\* selectRoomNID / selectEventTypeNID / selectEventStateKeyNID: the NID of the
\* key, 0 standing for sql.ErrNoRows.
selectNID(S, t, tbl, key) == NidOfRow(tbl, Rd(S, t, tbl, key))

\* insertRoomNID / insertEventTypeNID / insertEventStateKeyNID: inserts the key
\* under the next NID of the table's sequence; on a uniqueness conflict it
\* inserts nothing and reports sql.ErrNoRows (nid 0).
insertNID(S, t, tbl, key) ==
  IF selectNID(S, t, tbl, key) # 0
  THEN [S |-> S, nid |-> 0]
  ELSE LET n == S.seq[tbl] + 1
           row == IF tbl = "rooms" THEN [NoRoom EXCEPT !.nid = n] ELSE n
       IN [S |-> Wr([S EXCEPT !.seq[tbl] = n], t, tbl, key, row), nid |-> n]

\* ------------------------------------------------------------------ callers
AssignFns == {"assignRoomNID", "assignEventTypeNID", "assignStateKeyNID"}

LocInit ==
  [op |-> "", fn |-> "", key |-> "", txn |-> Nil, nid |-> 0, err |-> "nil",
   nInsert |-> 0, nReselect |-> 0,
   ev |-> "", txnKey |-> "", stage |-> "",
   roomNID |-> 0, eventTypeNID |-> 0, eventStateKeyNID |-> 0, eventNID |-> 0, stateNID |-> 0,
   arg |-> <<>>, loaded |-> <<>>, results |-> <<>>]

\* No session held.
NoFrontierSession == [open |-> FALSE]
NoMembershipSession == [open |-> FALSE]
\* The latest call made on a tracker: the caller, the arguments, what it
\* returned, whether it ran updateMembership (wrote), whether it repeats the
\* call made before it on the same tracker with no call of another tracker in
\* between (replay), whether it left the membership row as it found it (same)
\* and whether it returned every outstanding invite and left none (all).
NoCall ==
  [by |-> Nil, op |-> "", ev |-> "", isUpdate |-> FALSE, ret |-> <<>>, inserted |-> FALSE,
   wrote |-> FALSE, replay |-> FALSE, same |-> FALSE, all |-> FALSE]

NoHistory ==
  [everLatest |-> {},     \* EventNIDs that have been in a stored frontier of room 1
   sentOK |-> TRUE,       \* every lastEventNIDSent passed so far was 0 or such an NID
   lastSentArg |-> 0,     \* the lastEventNIDSent of the latest SetLatestEvents on room 1
   frontierBy |-> Nil,    \* the open session that wrote the stored frontier of room 1 last
   undo |-> NoRoom,       \* the stored frontier before that session first wrote it
   returned |-> [i \in InviteIDs |-> 0],   \* times the invite was returned as retired
   standing |-> [i \in InviteIDs |-> 0],   \* ... by a session that was not rolled back
   last |-> NoCall]

Init ==
  /\ store = InitStore
  /\ pc = [p \in Procs |-> "idle"]
  /\ loc = [p \in Procs |-> LocInit]
  /\ fs = [p \in Procs |-> NoFrontierSession]
  /\ ms = [p \in Procs |-> NoMembershipSession]
  /\ calls = <<>>
  /\ ghost = NoHistory

\* ------------------------------------------------------------------ assignRoomNID / assignEventTypeNID / assignStateKeyNID
\* The table each assign function selects from and inserts into.
RegTableSwapped(fn) ==
  CASE fn = "assignRoomNID" -> "rooms"
    [] fn = "assignEventTypeNID" -> "keys"
    [] fn = "assignStateKeyNID" -> "keys"

RegTable(fn) ==
  CASE fn = "assignRoomNID" -> "rooms"
    [] fn = "assignEventTypeNID" -> "types"
    [] fn = "assignStateKeyNID" -> "keys"

\* The first select: a found NID is returned, sql.ErrNoRows leads to the insert.
AfterSelect(l, n) ==
  IF n # 0 THEN [pc |-> "assigned", loc |-> [l EXCEPT !.nid = n, !.err = "nil"]]
           ELSE [pc |-> "insert", loc |-> l]

AfterInsertNoReselect(l, n) ==
  IF n # 0 THEN [pc |-> "assigned", loc |-> [l EXCEPT !.nid = n, !.err = "nil"]]
           ELSE [pc |-> "assigned", loc |-> [l EXCEPT !.nid = 0, !.err = "ErrNoRows"]]

\* The insert: its NID is returned; sql.ErrNoRows (a lost race) leads to the
\* second select.
AfterInsert(l, n) ==
  IF n # 0 THEN [pc |-> "assigned", loc |-> [l EXCEPT !.nid = n, !.err = "nil"]]
           ELSE [pc |-> "reselect", loc |-> l]

AfterReselectRetry(l, n) ==
  IF n = 0 THEN [pc |-> "insert", loc |-> l]
           ELSE [pc |-> "assigned", loc |-> [l EXCEPT !.nid = n, !.err = "nil"]]

\* The second select: whatever it yields is returned, sql.ErrNoRows included.
AfterReselect(l, n) ==
  [pc |-> "assigned",
   loc |-> [l EXCEPT !.nid = n, !.err = IF n = 0 THEN "ErrNoRows" ELSE "nil"]]

assignSelect(p) ==
  /\ pc[p] = "select"
  /\ UNCHANGED <<calls, fs, ms, ghost>>
  /\ LET r == AfterSelect(loc[p], selectNID(store, loc[p].txn, RegTable(loc[p].fn), loc[p].key))
     IN /\ pc' = [pc EXCEPT ![p] = r.pc]
        /\ loc' = [loc EXCEPT ![p] = r.loc]
  /\ UNCHANGED store

assignInsert(p) ==
  /\ pc[p] = "insert"
  /\ UNCHANGED <<calls, fs, ms, ghost>>
  /\ Free(store, loc[p].txn, RegTable(loc[p].fn), loc[p].key)
  /\ LET i == insertNID(store, loc[p].txn, RegTable(loc[p].fn), loc[p].key)
         r == AfterInsert(loc[p], i.nid)
     IN /\ store' = i.S
        /\ pc' = [pc EXCEPT ![p] = r.pc]
        /\ loc' = [loc EXCEPT ![p] = [r.loc EXCEPT !.nInsert = @ + 1]]

assignReselect(p) ==
  /\ pc[p] = "reselect"
  /\ UNCHANGED <<calls, fs, ms, ghost>>
  /\ LET r == AfterReselect(loc[p], selectNID(store, loc[p].txn, RegTable(loc[p].fn), loc[p].key))
     IN /\ pc' = [pc EXCEPT ![p] = r.pc]
        /\ loc' = [loc EXCEPT ![p] = [r.loc EXCEPT !.nReselect = @ + 1]]
  /\ UNCHANGED store

\* common.WithTransaction(d.db, func(tx) { assign...NID(ctx, tx, key) }): begins
\* a transaction and runs one assign in it.
AssignCall(p) ==
  /\ pc[p] = "idle"
  /\ UNCHANGED <<calls, fs, ms, ghost>>
  /\ \E fn \in AssignFns, key \in Strs :
       loc' = [loc EXCEPT ![p] = [LocInit EXCEPT !.op = "assign", !.fn = fn, !.key = key, !.txn = p]]
  /\ store' = Begin(store, p)
  /\ pc' = [pc EXCEPT ![p] = "select"]

\* common.WithTransaction's end: Commit when the function returned nil,
\* Rollback when it returned an error.
AssignEnd(p) ==
  /\ pc[p] = "assigned"
  /\ UNCHANGED <<calls, fs, ms, ghost>>
  /\ loc[p].op = "assign"
  /\ store' = IF loc[p].err = "nil" THEN TxCommit(store, p) ELSE TxRollback(store, p)
  /\ pc' = [pc EXCEPT ![p] = "done"]
  /\ UNCHANGED loc

\* Database.RoomNID, EventTypeNIDs, EventStateKeyNIDs: a lookup without a
\* transaction; a key that is not interned yields 0 and no error.
Lookup(p) ==
  /\ pc[p] = "idle"
  /\ UNCHANGED <<calls, fs, ms, ghost>>
  /\ \E fn \in AssignFns, key \in Strs :
       loc' = [loc EXCEPT ![p] = [LocInit EXCEPT !.op = "lookup", !.fn = fn, !.key = key,
                                                  !.nid = selectNID(store, Nil, RegTable(fn), key)]]
  /\ pc' = [pc EXCEPT ![p] = "done"]
  /\ UNCHANGED store

\* The caller takes the result; it may call again.
Return(p) ==
  /\ pc[p] = "done"
  /\ UNCHANGED <<calls, fs, ms, ghost>>
  /\ pc' = [pc EXCEPT ![p] = "idle"]
  /\ loc' = [loc EXCEPT ![p] = LocInit]
  /\ UNCHANGED store

NextAssign ==
  \E p \in Procs :
    \/ AssignCall(p)
    \/ assignSelect(p)
    \/ assignInsert(p)
    \/ assignReselect(p)
    \/ AssignEnd(p)
    \/ Lookup(p)
    \/ Return(p)

SpecAssign == Init /\ [][NextAssign]_vars

\* ------------------------------------------------------------------ assign against a store that answers anything
\* What a select or insert statement of a registry can answer: a NID, or 0
\* for sql.ErrNoRows.
StatementAnswers == 0..MaxKeyNID

\* The three statements of an assign function, each answering any of these
\* (so also an insert and a second select that both report no row); the
\* statements run and their answers are logged in loc[p].arg.
assignSelectAny(p) ==
  /\ pc[p] = "select"
  /\ UNCHANGED <<store, calls, fs, ms, ghost>>
  /\ \E n \in StatementAnswers :
       LET r == AfterSelect(loc[p], n)
       IN /\ pc' = [pc EXCEPT ![p] = r.pc]
          /\ loc' = [loc EXCEPT ![p] = [r.loc EXCEPT !.arg = Append(@, <<"select", n>>)]]

assignInsertAny(p) ==
  /\ pc[p] = "insert"
  /\ UNCHANGED <<store, calls, fs, ms, ghost>>
  /\ Len(loc[p].arg) < MaxStatements
  /\ \E n \in StatementAnswers :
       LET r == AfterInsert(loc[p], n)
       IN /\ pc' = [pc EXCEPT ![p] = r.pc]
          /\ loc' = [loc EXCEPT ![p] = [r.loc EXCEPT !.arg = Append(@, <<"insert", n>>),
                                                     !.nInsert = @ + 1]]

assignReselectAny(p) ==
  /\ pc[p] = "reselect"
  /\ UNCHANGED <<store, calls, fs, ms, ghost>>
  /\ \E n \in StatementAnswers :
       LET r == AfterReselect(loc[p], n)
       IN /\ pc' = [pc EXCEPT ![p] = r.pc]
          /\ loc' = [loc EXCEPT ![p] = [r.loc EXCEPT !.arg = Append(@, <<"select", n>>),
                                                     !.nReselect = @ + 1]]

NextAssignAny ==
  \E p \in Procs :
    \/ AssignCall(p)
    \/ assignSelectAny(p)
    \/ assignInsertAny(p)
    \/ assignReselectAny(p)
    \/ AssignEnd(p)
    \/ Return(p)

SpecAssignAny == Init /\ [][NextAssignAny]_vars

\* ------------------------------------------------------------------ statements of the event store
\* insertTransaction: records the event id under the transaction key (the
\* transaction id, session id and sender); a key already recorded is an error.
insertTransaction(S, txnKey, eventID) ==
  IF S.db.txns[txnKey] # ""
  THEN [S |-> S, err |-> "error"]
  ELSE [S |-> Wr(S, Nil, "txns", txnKey, eventID), err |-> "nil"]

\* selectTransactionEventID.
selectTransactionEventID(S, txnKey) == S.db.txns[txnKey]

\* Database.GetTransactionEventID: the event id recorded under the key;
\* sql.ErrNoRows of the select becomes the empty id and no error.
GetTransactionEventID(S, txnKey) ==
  LET eventID == selectTransactionEventID(S, txnKey)
      err == IF eventID = "" THEN "ErrNoRows" ELSE "nil"
  IN IF err = "ErrNoRows" THEN [eventID |-> "", err |-> "nil"]
                          ELSE [eventID |-> eventID, err |-> err]

\* insertEvent: inserts the event row under the next EventNID, with no state
\* snapshot yet; on a uniqueness conflict on the event id it inserts nothing
\* and reports sql.ErrNoRows (nid 0).
insertEvent(S, t, roomNID, eventTypeNID, eventStateKeyNID, eventID) ==
  IF Rd(S, t, "events", eventID).nid # 0
  THEN [S |-> S, nid |-> 0]
  ELSE LET n == S.seq.events + 1
           row == [nid |-> n, room |-> roomNID, type |-> eventTypeNID,
                   key |-> eventStateKeyNID, stateNID |-> 0, sent |-> FALSE]
       IN [S |-> Wr([S EXCEPT !.seq.events = n], t, "events", eventID, row), nid |-> n]

\* selectEvent: the EventNID and state snapshot NID of an event id (nid 0:
\* sql.ErrNoRows).
selectEvent(S, t, eventID) == Rd(S, t, "events", eventID)

\* insertEventJSON: stores the body under the EventNID unless one is stored.
insertEventJSON(S, t, eventNID, body) ==
  IF Rd(S, t, "json", eventNID) # "" THEN S ELSE Wr(S, t, "json", eventNID, body)

\* bulkSelectEventJSON: the stored bodies of the given EventNIDs, in EventNID
\* order.
RECURSIVE JSONPairs(_, _, _, _)
JSONPairs(S, t, nids, n) ==
  IF n > MaxEventNID THEN <<>>
  ELSE (IF (\E i \in 1..Len(nids) : nids[i] = n) /\ Rd(S, t, "json", n) # ""
        THEN <<[EventNID |-> n, EventJSON |-> Rd(S, t, "json", n)]>>
        ELSE <<>>) \o JSONPairs(S, t, nids, n + 1)

bulkSelectEventJSON(S, t, nids) == JSONPairs(S, t, nids, 0)

\* ------------------------------------------------------------------ Database.StoreEvent
\* The call, up to the first transaction: the transaction key, when given, is
\* recorded first, on its own; then the room id is assigned in a transaction.
StoreEvent(p) ==
  /\ pc[p] = "idle"
  /\ UNCHANGED <<calls, fs, ms, ghost>>
  /\ \E e \in EventIDs, tk \in {""} \cup TxnKeys :
       LET l == [LocInit EXCEPT !.op = "StoreEvent", !.ev = e, !.txnKey = tk]
           r == IF tk # "" THEN insertTransaction(store, tk, e) ELSE [S |-> store, err |-> "nil"]
       IN IF r.err # "nil"
          THEN /\ store' = r.S
               /\ loc' = [loc EXCEPT ![p] = [l EXCEPT !.err = r.err]]
               /\ pc' = [pc EXCEPT ![p] = "done"]
          ELSE /\ store' = Begin(r.S, p)
               /\ loc' = [loc EXCEPT ![p] = [l EXCEPT !.stage = "room", !.fn = "assignRoomNID",
                                                      !.key = EvRoom(e), !.txn = p]]
               /\ pc' = [pc EXCEPT ![p] = "select"]

\* The end of the first transaction: committed, and the event type is assigned
\* in a second one; on an error it is rolled back and StoreEvent returns it.
StoreEventRoomAssigned(p) ==
  /\ pc[p] = "assigned" /\ loc[p].op = "StoreEvent" /\ loc[p].stage = "room"
  /\ UNCHANGED <<calls, fs, ms, ghost>>
  /\ IF loc[p].err # "nil"
     THEN /\ store' = TxRollback(store, p)
          /\ loc' = [loc EXCEPT ![p].txn = Nil]
          /\ pc' = [pc EXCEPT ![p] = "done"]
     ELSE /\ store' = Begin(TxCommit(store, p), p)
          /\ loc' = [loc EXCEPT ![p] = [@ EXCEPT !.roomNID = loc[p].nid, !.stage = "type",
                                                 !.fn = "assignEventTypeNID",
                                                 !.key = EvType(loc[p].ev), !.nid = 0,
                                                 !.nInsert = 0, !.nReselect = 0]]
          /\ pc' = [pc EXCEPT ![p] = "select"]

\* The end of the second transaction; the third one begins with the state key
\* when the event has one, and with the event row otherwise.
StoreEventTypeAssigned(p) ==
  /\ pc[p] = "assigned" /\ loc[p].op = "StoreEvent" /\ loc[p].stage = "type"
  /\ UNCHANGED <<calls, fs, ms, ghost>>
  /\ IF loc[p].err # "nil"
     THEN /\ store' = TxRollback(store, p)
          /\ loc' = [loc EXCEPT ![p].txn = Nil]
          /\ pc' = [pc EXCEPT ![p] = "done"]
     ELSE /\ store' = Begin(TxCommit(store, p), p)
          /\ loc' = [loc EXCEPT ![p] = [@ EXCEPT !.eventTypeNID = loc[p].nid, !.stage = "event",
                                                 !.fn = "assignStateKeyNID",
                                                 !.key = EvStateKey(loc[p].ev), !.nid = 0,
                                                 !.nInsert = 0, !.nReselect = 0]]
          /\ pc' = [pc EXCEPT ![p] = IF EvStateKey(loc[p].ev) # NoStateKey
                                     THEN "select" ELSE "insertEvent"]

\* Inside the third transaction: the state key is assigned, or its error ends
\* the transaction.
StoreEventStateKeyAssigned(p) ==
  /\ pc[p] = "assigned" /\ loc[p].op = "StoreEvent" /\ loc[p].stage = "event"
  /\ UNCHANGED <<calls, fs, ms, ghost>>
  /\ IF loc[p].err # "nil"
     THEN /\ store' = TxRollback(store, p)
          /\ loc' = [loc EXCEPT ![p].txn = Nil]
          /\ pc' = [pc EXCEPT ![p] = "done"]
     ELSE /\ store' = store
          /\ loc' = [loc EXCEPT ![p].eventStateKeyNID = loc[p].nid]
          /\ pc' = [pc EXCEPT ![p] = "insertEvent"]

\* Whether a statement of the third transaction may return an error other than
\* sql.ErrNoRows.  The sequences are not rolled back with the transaction, so
\* each failed call can use up a NID; errors are drawn only while both
\* sequences are below their bounds.
StoreEventFailures(S) ==
  IF S.seq.keys < MaxKeyNID /\ S.seq.events < MaxEventNID THEN BOOLEAN ELSE {FALSE}

\* A statement of the third transaction returned an error other than
\* sql.ErrNoRows: the function returns it, the transaction is rolled back and
\* StoreEvent returns the error.
StoreEventFailed(p, err) ==
  /\ store' = TxRollback(store, p)
  /\ loc' = [loc EXCEPT ![p] = [@ EXCEPT !.err = err, !.txn = Nil, !.stage = "failed"]]
  /\ pc' = [pc EXCEPT ![p] = "done"]

AfterInsertEventNoSelect(l, n) ==
  [pc |-> "insertEventJSON", loc |-> [l EXCEPT !.eventNID = n, !.stateNID = 0]]

\* insertEvent's result: the new EventNID, or, on sql.ErrNoRows, the select of
\* the event that is already stored.
AfterInsertEvent(l, n) ==
  IF n # 0 THEN [pc |-> "insertEventJSON", loc |-> [l EXCEPT !.eventNID = n, !.stateNID = 0]]
           ELSE [pc |-> "selectEvent", loc |-> l]

\* The event sequence is not rolled back with a failed transaction, so the
\* insert of a new row is taken only while the sequence is below MaxEventNID.
StoreEventInsertEvent(p) ==
  /\ pc[p] = "insertEvent"
  /\ UNCHANGED <<calls, fs, ms, ghost>>
  /\ Free(store, p, "events", loc[p].ev)
  /\ selectEvent(store, p, loc[p].ev).nid = 0 => store.seq.events < MaxEventNID
  /\ \E fail \in StoreEventFailures(store) :
       IF fail THEN StoreEventFailed(p, "insertEvent")
       ELSE LET i == insertEvent(store, p, loc[p].roomNID, loc[p].eventTypeNID,
                                 loc[p].eventStateKeyNID, loc[p].ev)
                r == AfterInsertEvent(loc[p], i.nid)
            IN /\ store' = i.S
               /\ pc' = [pc EXCEPT ![p] = r.pc]
               /\ loc' = [loc EXCEPT ![p] = r.loc]

\* The select after a conflicting insert; sql.ErrNoRows here ends the
\* transaction with an error.
StoreEventSelectEvent(p) ==
  /\ pc[p] = "selectEvent"
  /\ UNCHANGED <<calls, fs, ms, ghost>>
  /\ \E fail \in StoreEventFailures(store) :
       LET row == selectEvent(store, p, loc[p].ev)
       IN IF fail \/ row.nid = 0
          THEN StoreEventFailed(p, IF fail THEN "selectEvent" ELSE "ErrNoRows")
          ELSE /\ store' = store
               /\ loc' = [loc EXCEPT ![p] = [@ EXCEPT !.eventNID = row.nid,
                                                      !.stateNID = row.stateNID,
                                                      !.stage = "selected"]]
               /\ pc' = [pc EXCEPT ![p] = "insertEventJSON"]

StoreEventInsertJSON(p) ==
  /\ pc[p] = "insertEventJSON"
  /\ UNCHANGED <<calls, fs, ms, ghost>>
  /\ Free(store, p, "json", loc[p].eventNID)
  /\ \E fail \in StoreEventFailures(store) :
       IF fail THEN StoreEventFailed(p, "insertEventJSON")
       ELSE /\ store' = insertEventJSON(store, p, loc[p].eventNID, EvJSON(loc[p].ev))
            /\ pc' = [pc EXCEPT ![p] = "commitEvent"]
            /\ UNCHANGED loc

\* The third transaction commits and StoreEvent returns the room NID and the
\* event's StateAtEvent.
StoreEventCommit(p) ==
  /\ pc[p] = "commitEvent"
  /\ UNCHANGED <<calls, fs, ms, ghost>>
  /\ store' = TxCommit(store, p)
  /\ loc' = [loc EXCEPT ![p].txn = Nil]
  /\ pc' = [pc EXCEPT ![p] = "done"]

\* ------------------------------------------------------------------ Database.Events
\* The loop over the loaded bodies, writing results[i]; results was made
\* before the query ran, so it has the length eventJSONs had then.
RECURSIVE EventsLoop(_, _, _)
EventsLoop(eventJSONs, results, i) ==
  IF i > Len(eventJSONs) THEN [status |-> "ok", results |-> results]
  ELSE IF i > Len(results) THEN [status |-> "panic", results |-> <<>>]
  ELSE IF eventJSONs[i].EventJSON # "wf" THEN [status |-> "error", results |-> <<>>]
  ELSE EventsLoop(eventJSONs,
                  [results EXCEPT ![i] = [EventNID |-> eventJSONs[i].EventNID,
                                          Event |-> eventJSONs[i].EventJSON]],
                  i + 1)

\* eventJSONs is nil when results is made.
EventsResult(S, t, eventNIDs) ==
  LET before == <<>>
      results == [i \in 1..Len(before) |-> [EventNID |-> 0, Event |-> ""]]
  IN EventsLoop(bulkSelectEventJSON(S, t, eventNIDs), results, 1)

NIDLists == {<<>>} \cup {<<n>> : n \in 1..MaxEventNID}
              \cup {<<m, n>> : m, n \in 1..MaxEventNID}

Events(p) ==
  /\ pc[p] = "idle"
  /\ UNCHANGED <<calls, fs, ms, ghost>>
  /\ \E nids \in NIDLists :
       LET r == EventsResult(store, p, nids)
       IN loc' = [loc EXCEPT ![p] = [LocInit EXCEPT !.op = "Events", !.arg = nids,
                                                    !.loaded = bulkSelectEventJSON(store, p, nids),
                                                    !.err = r.status, !.results = r.results]]
  /\ pc' = [pc EXCEPT ![p] = "done"]
  /\ UNCHANGED store

NextStore ==
  \E p \in Procs :
    \/ StoreEvent(p)
    \/ assignSelect(p)
    \/ assignInsert(p)
    \/ assignReselect(p)
    \/ StoreEventRoomAssigned(p)
    \/ StoreEventTypeAssigned(p)
    \/ StoreEventStateKeyAssigned(p)
    \/ StoreEventInsertEvent(p)
    \/ StoreEventSelectEvent(p)
    \/ StoreEventInsertJSON(p)
    \/ StoreEventCommit(p)
    \/ Events(p)
    \/ Return(p)

SpecStore == Init /\ [][NextStore]_vars

\* ------------------------------------------------------------------ statements of the state snapshot store
\* selectNextStateBlockNID: the next value of the state block sequence.
selectNextStateBlockNID(S) == [S |-> [S EXCEPT !.seq.blocks = @ + 1], nid |-> S.seq.blocks + 1]

\* bulkInsertStateData: the entries of a new block.
bulkInsertStateData(S, t, stateBlockNID, entries) == Wr(S, t, "blocks", stateBlockNID, entries)

\* insertState: a new snapshot row holding the block list.
insertState(S, t, roomNID, stateBlockNIDs) ==
  LET n == S.seq.snaps + 1
  IN [S |-> Wr([S EXCEPT !.seq.snaps = n], t, "snaps", n,
               [room |-> roomNID, blocks |-> stateBlockNIDs]),
      nid |-> n]

\* bulkSelectStateBlockNIDs / bulkSelectStateBlockEntries, run without a
\* transaction by Database.StateBlockNIDs and Database.StateEntries.
StateBlockNIDs(S, stateNID) == S.db.snaps[stateNID].blocks
StateEntries(S, stateBlockNIDs) ==
  [i \in 1..Len(stateBlockNIDs) |-> S.db.blocks[stateBlockNIDs[i]]]

\* ------------------------------------------------------------------ Database.AddState
E1 == [EventTypeNID |-> 1, EventStateKeyNID |-> 1, EventNID |-> 1]
E2 == [EventTypeNID |-> 1, EventStateKeyNID |-> 1, EventNID |-> 2]
StateEntryLists == {<<>>, <<E1>>, <<E2>>}
StoreFailures == {"none", "selectNextStateBlockNID", "bulkInsertStateData", "insertState"}

\* The caller's stateBlockNIDs is a slice of length blen over the array
\* backing, which may have room after the slice.
AppendBlockNIDInPlace(backing, blen, nid) ==
  IF Len(backing) > blen
  THEN [list |-> SubSeq(backing, 1, blen) \o <<nid>>, backing |-> [backing EXCEPT ![blen + 1] = nid]]
  ELSE [list |-> SubSeq(backing, 1, blen) \o <<nid>>, backing |-> backing]

\* append(stateBlockNIDs[:len:len], stateBlockNID): the slice is cut to its
\* length, so append copies it and the caller's array is left alone.
AppendBlockNID(backing, blen, nid) ==
  [list |-> SubSeq(backing, 1, blen) \o <<nid>>, backing |-> backing]

\* The last statement of the function run in the transaction: insertState
\* assigns AddState's stateNID and err, and the function returns nil.
AddStateInsert(S, t, roomNID, list, backing, fail) ==
  IF fail = "insertState"
  THEN [S |-> S, fnErr |-> "nil", stateNID |-> 0, err |-> "error", backing |-> backing]
  ELSE LET r == insertState(S, t, roomNID, list)
       IN [S |-> r.S, fnErr |-> "nil", stateNID |-> r.nid, err |-> "nil", backing |-> backing]

\* Whether a block is allocated for the new entries: len(state) > 0.
HasNewEntriesAlways(state) == TRUE

HasNewEntries(state) == Len(state) > 0

\* The function run in the transaction.  Inside "if len(state) > 0" err is a
\* new variable, so an error there is what the function returns (fnErr) and
\* AddState's own err stays nil.
AddStateFn(S, t, roomNID, backing, blen, state, fail) ==
  IF HasNewEntries(state)
  THEN IF fail = "selectNextStateBlockNID"
       THEN [S |-> S, fnErr |-> "error", stateNID |-> 0, err |-> "nil", backing |-> backing]
       ELSE LET a == selectNextStateBlockNID(S)
            IN IF fail = "bulkInsertStateData"
               THEN [S |-> a.S, fnErr |-> "error", stateNID |-> 0, err |-> "nil",
                     backing |-> backing]
               ELSE LET l == AppendBlockNID(backing, blen, a.nid)
                    IN AddStateInsert(bulkInsertStateData(a.S, t, a.nid, state),
                                      t, roomNID, l.list, l.backing, fail)
  ELSE AddStateInsert(S, t, roomNID, SubSeq(backing, 1, blen), backing, fail)

\* common.WithTransaction around the function (its own result is dropped),
\* then "if err != nil { return 0, err }; return".
AddStateResult(S, t, roomNID, backing, blen, state, fail) ==
  LET r == AddStateFn(Begin(S, t), t, roomNID, backing, blen, state, fail)
  IN [S |-> IF r.fnErr = "nil" THEN TxCommit(r.S, t) ELSE TxRollback(r.S, t),
      stateNID |-> IF r.err # "nil" THEN 0 ELSE r.stateNID,
      err |-> r.err,
      backing |-> r.backing]

\* The block lists a caller has at hand: the empty one and those of the
\* snapshots stored so far.
BaseLists(S) == {<<>>} \cup {S.db.snaps[n].blocks : n \in 1..S.seq.snaps}

AddState(p) ==
  /\ pc[p] = "idle"
  /\ UNCHANGED <<pc, loc, fs, ms, ghost>>
  /\ Len(calls) < MaxCalls
  /\ \E base \in BaseLists(store), state \in StateEntryLists, spare \in 0..1,
        fail \in StoreFailures :
       /\ state = <<>> => (spare = 0 /\ fail \in {"none", "insertState"})
       /\ LET backing == base \o [i \in 1..spare |-> 0]
              r == AddStateResult(store, p, 1, backing, Len(base), state, fail)
          IN /\ store' = r.S
             /\ calls' = Append(calls, [base |-> base, backing |-> backing, state |-> state,
                                        fail |-> fail, stateNID |-> r.stateNID, err |-> r.err,
                                        backingAfter |-> r.backing])

NextState == \E p \in Procs : AddState(p)

SpecState == Init /\ [][NextState]_vars

\* ------------------------------------------------------------------ the store a session starts from
\* The store after StoreEvent has stored $e1 and then $e2, with no
\* transaction key, and assignStateKeyNID has assigned the user "a".
SessionStore ==
  [InitStore EXCEPT
     !.db.rooms["a"] = [NoRoom EXCEPT !.nid = 1],
     !.db.types["a"] = 1,
     !.db.types["b"] = 2,
     !.db.keys["b"] = 1,
     !.db.keys["a"] = 2,
     !.db.events["$e1"] = [NoEvent EXCEPT !.nid = 1, !.room = 1, !.type = 1],
     !.db.events["$e2"] = [NoEvent EXCEPT !.nid = 2, !.room = 1, !.type = 2, !.key = 1],
     !.db.json[1] = EvJSON("$e1"),
     !.db.json[2] = EvJSON("$e2"),
     !.seq.rooms = 1, !.seq.types = 2, !.seq.keys = 2, !.seq.events = 2]

InitSession ==
  /\ store = SessionStore
  /\ pc = [p \in Procs |-> "idle"]
  /\ loc = [p \in Procs |-> LocInit]
  /\ fs = [p \in Procs |-> NoFrontierSession]
  /\ ms = [p \in Procs |-> NoMembershipSession]
  /\ calls = <<>>
  /\ ghost = NoHistory

\* A panic ends the program: no goroutine takes a step after one.
Running == \A q \in Procs : pc[q] # "panic"

\* ------------------------------------------------------------------ statements of the room frontier
\* The key of the room row with this RoomNID ({} when there is none).
RoomKeys(S, t, roomNID) == {k \in Strs : Rd(S, t, "rooms", k).nid = roomNID}
\* The id of the event row with this EventNID ({} when there is none).
EventKeys(S, t, eventNID) == {e \in EventIDs : Rd(S, t, "events", e).nid = eventNID}

\* selectLatestEventsNIDsForUpdate: the frontier stored in the room row.
selectLatestEventsNIDsForUpdate(S, t, roomNID) ==
  IF RoomKeys(S, t, roomNID) = {} THEN [err |-> "ErrNoRows", row |-> NoRoom]
  ELSE [err |-> "nil", row |-> Rd(S, t, "rooms", CHOOSE k \in RoomKeys(S, t, roomNID) : TRUE)]

\* bulkSelectStateAtEventAndReference: one StateAtEventAndReference per
\* EventNID; an EventNID without an event row is an error.
bulkSelectStateAtEventAndReference(S, t, eventNIDs) ==
  IF \E i \in 1..Len(eventNIDs) : EventKeys(S, t, eventNIDs[i]) = {}
  THEN [err |-> "error", refs |-> <<>>]
  ELSE [err |-> "nil",
        refs |-> [i \in 1..Len(eventNIDs) |->
                    [EventNID |-> eventNIDs[i],
                     EventID |-> CHOOSE e \in EventKeys(S, t, eventNIDs[i]) : TRUE]]]

\* selectEventID: the event id of an EventNID.
selectEventID(S, t, eventNID) ==
  IF EventKeys(S, t, eventNID) = {} THEN [err |-> "ErrNoRows", id |-> ""]
  ELSE [err |-> "nil", id |-> CHOOSE e \in EventKeys(S, t, eventNID) : TRUE]

\* insertPreviousEvent: records that eventNID references the previous event.
insertPreviousEvent(S, t, previousEventID, eventNID) ==
  Wr(S, t, "prev", <<previousEventID, eventNID>>, TRUE)

\* updateLatestEventNIDs: replaces the three frontier columns of the room row.
updateLatestEventNIDs(S, t, roomNID, eventNIDs, lastEventNIDSent, currentStateSnapshotNID) ==
  IF RoomKeys(S, t, roomNID) = {} THEN S
  ELSE LET k == CHOOSE x \in RoomKeys(S, t, roomNID) : TRUE
       IN Wr(S, t, "rooms", k,
             [Rd(S, t, "rooms", k) EXCEPT !.latest = eventNIDs, !.lastSent = lastEventNIDSent,
                                          !.snap = currentStateSnapshotNID])

\* updateEventSentToOutput: sets the sent flag of the event row.
updateEventSentToOutput(S, t, eventNID) ==
  IF EventKeys(S, t, eventNID) = {} THEN S
  ELSE LET e == CHOOSE x \in EventKeys(S, t, eventNID) : TRUE
       IN Wr(S, t, "events", e, [Rd(S, t, "events", e) EXCEPT !.sent = TRUE])

\* ------------------------------------------------------------------ roomRecentEventsUpdater
\* What a failing open does with the transaction it began: nothing.
LeakOnError(S, t) == S

\* What a failing open does with the transaction it began: txn.Rollback().
RollbackOnError(S, t) == TxRollback(S, t)

\* The error of a statement: its own, or "error" when the store fails in it.
StmtErr(err, fails) == IF err # "nil" THEN err ELSE IF fails THEN "error" ELSE "nil"

\* The statements of GetLatestEventsForUpdate in which the store can fail.
FrontierOpenFailures ==
  {"none", "selectLatestEventsNIDsForUpdate", "bulkSelectStateAtEventAndReference",
   "selectEventID"}

\* GetLatestEventsForUpdate: begins the session's transaction and reads the
\* room's frontier in it; any error rolls the transaction back.
GetLatestEventsForUpdateResult(S, t, roomNID, fail) ==
  LET S1 == Begin(S, t)
      f == selectLatestEventsNIDsForUpdate(S1, t, roomNID)
      refs == bulkSelectStateAtEventAndReference(S1, t, f.row.latest)
      sent == IF f.row.lastSent # 0 THEN selectEventID(S1, t, f.row.lastSent)
                                    ELSE [err |-> "nil", id |-> ""]
      ferr == StmtErr(f.err, fail = "selectLatestEventsNIDsForUpdate")
      rerr == StmtErr(refs.err, fail = "bulkSelectStateAtEventAndReference")
      serr == IF f.row.lastSent # 0 THEN StmtErr(sent.err, fail = "selectEventID") ELSE "nil"
      err == IF ferr # "nil" THEN ferr ELSE IF rerr # "nil" THEN rerr ELSE serr
  IN IF err # "nil"
     THEN [S |-> RollbackOnError(S1, t), err |-> err, u |-> NoFrontierSession]
     ELSE [S |-> S1, err |-> "nil",
           u |-> [open |-> TRUE, txn |-> t, roomNID |-> roomNID, latestEvents |-> refs.refs,
                  lastEventIDSent |-> sent.id, currentStateSnapshotNID |-> f.row.snap]]

GetLatestEventsForUpdate(p) ==
  /\ pc[p] = "idle" /\ Running
  /\ UNCHANGED <<pc, ms, calls, ghost>>
  /\ ~fs[p].open /\ ~ms[p].open
  /\ \E roomNID \in 1..MaxRoomNID, fail \in FrontierOpenFailures :
       LET r == GetLatestEventsForUpdateResult(store, p, roomNID, fail)
       IN /\ store' = r.S
          /\ fs' = [fs EXCEPT ![p] = r.u]
          /\ loc' = [loc EXCEPT ![p] = IF r.err = "nil" THEN LocInit
                                        ELSE [LocInit EXCEPT !.op = "GetLatestEventsForUpdate",
                                                             !.err = r.err]]

\* StorePreviousEvents: one insertPreviousEvent per reference, in the session's
\* transaction.
RECURSIVE StorePreviousEventsResult(_, _, _, _)
StorePreviousEventsResult(S, t, eventNID, refs) ==
  IF refs = <<>> THEN S
  ELSE StorePreviousEventsResult(insertPreviousEvent(S, t, Head(refs), eventNID),
                                 t, eventNID, Tail(refs))

StorePreviousEvents(p) ==
  /\ pc[p] = "idle"
  /\ UNCHANGED <<pc, loc, fs, ms, calls, ghost>>
  /\ fs[p].open
  /\ \E eventNID \in {MaxEventNID}, refs \in {<<r>> : r \in PrevRefs} :
       /\ \A i \in 1..Len(refs) : Free(store, fs[p].txn, "prev", <<refs[i], eventNID>>)
       /\ store' = StorePreviousEventsResult(store, fs[p].txn, eventNID, refs)

\* The arguments SetLatestEvents hands to updateLatestEventNIDs.
SetLatestEventsArgsSwapped(roomNID, latest, lastEventNIDSent, currentStateSnapshotNID) ==
  [roomNID |-> roomNID,
   eventNIDs |-> [i \in 1..Len(latest) |-> latest[i].EventNID],
   lastEventNIDSent |-> currentStateSnapshotNID,
   currentStateSnapshotNID |-> lastEventNIDSent]

SetLatestEventsArgs(roomNID, latest, lastEventNIDSent, currentStateSnapshotNID) ==
  [roomNID |-> roomNID,
   eventNIDs |-> [i \in 1..Len(latest) |-> latest[i].EventNID],
   lastEventNIDSent |-> lastEventNIDSent,
   currentStateSnapshotNID |-> currentStateSnapshotNID]

\* The transaction SetLatestEvents, MarkEventAsSent and MembershipUpdater hand
\* to their statements: nil, not the session's.
FrontierWriteTxn(u) == Nil

\* SetLatestEvents: updateLatestEventNIDs, run without the session's transaction.
SetLatestEventsResult(S, u, roomNID, latest, lastEventNIDSent, currentStateSnapshotNID) ==
  LET a == SetLatestEventsArgs(roomNID, latest, lastEventNIDSent, currentStateSnapshotNID)
  IN updateLatestEventNIDs(S, FrontierWriteTxn(u), a.roomNID, a.eventNIDs,
                           a.lastEventNIDSent, a.currentStateSnapshotNID)

\* The frontiers a caller hands to SetLatestEvents.
LatestLists == {<<>>, <<[EventNID |-> 1, EventID |-> "$e1"]>>}

\* The frontier columns of the committed room row of room 1.
Frontier(S) == S.db.rooms["a"]

SetLatestEvents(p) ==
  /\ pc[p] = "idle"
  /\ UNCHANGED <<pc, loc, ms, calls>>
  /\ fs[p].open
  /\ \E roomNID \in 1..MaxRoomNID, latest \in LatestLists,
        lastEventNIDSent \in 0..1, currentStateSnapshotNID \in 0..1 :
       LET t == FrontierWriteTxn(fs[p])
           nids == {latest[i].EventNID : i \in 1..Len(latest)}
       IN /\ \A k \in RoomKeys(store, t, roomNID) : Free(store, t, "rooms", k)
          /\ store' = SetLatestEventsResult(store, fs[p], roomNID, latest, lastEventNIDSent,
                                            currentStateSnapshotNID)
          /\ UNCHANGED fs
          /\ IF roomNID = 1
             THEN ghost' = [ghost EXCEPT
                              !.everLatest = @ \cup nids,
                              !.sentOK = @ /\ lastEventNIDSent \in {0} \cup ghost.everLatest \cup nids,
                              !.lastSentArg = lastEventNIDSent,
                              !.frontierBy = p,
                              !.undo = IF ghost.frontierBy = p THEN @ ELSE Frontier(store)]
             ELSE UNCHANGED ghost

\* MarkEventAsSent: updateEventSentToOutput, run without the session's
\* transaction.
MarkEventAsSent(p) ==
  /\ pc[p] = "idle"
  /\ UNCHANGED <<pc, loc, fs, ms, calls, ghost>>
  /\ fs[p].open
  /\ \E eventNID \in {1} :
       /\ \A e \in EventKeys(store, Nil, eventNID) : Free(store, FrontierWriteTxn(fs[p]), "events", e)
       /\ store' = updateEventSentToOutput(store, FrontierWriteTxn(fs[p]), eventNID)

\* transaction.Commit on the session.
FrontierCommit(p) ==
  /\ pc[p] = "idle" /\ Running
  /\ UNCHANGED <<pc, loc, calls>>
  /\ fs[p].open
  /\ ms[p].open => ms[p].txn = Nil
  /\ ms' = [ms EXCEPT ![p] = NoMembershipSession]
  /\ store' = TxCommit(store, fs[p].txn)
  /\ fs' = [fs EXCEPT ![p] = NoFrontierSession]
  /\ ghost' = [ghost EXCEPT !.frontierBy = IF @ = p THEN Nil ELSE @,
                            !.undo = IF ghost.frontierBy = p THEN NoRoom ELSE @,
                            !.last = IF @.by = p THEN NoCall ELSE @]

\* transaction.Rollback on the session.
FrontierRollback(p) ==
  /\ pc[p] = "idle" /\ Running
  /\ UNCHANGED <<pc, loc, calls>>
  /\ fs[p].open
  /\ ms[p].open => ms[p].txn = Nil
  /\ ms' = [ms EXCEPT ![p] = NoMembershipSession]
  /\ store' = TxRollback(store, fs[p].txn)
  /\ fs' = [fs EXCEPT ![p] = NoFrontierSession]
  /\ ghost' = [ghost EXCEPT !.frontierBy = IF @ = p THEN Nil ELSE @,
                            !.undo = IF ghost.frontierBy = p THEN NoRoom ELSE @,
                            !.last = IF @.by = p THEN NoCall ELSE @]

NextFrontier ==
  \E p \in Procs :
    \/ GetLatestEventsForUpdate(p)
    \/ StorePreviousEvents(p)
    \/ SetLatestEvents(p)
    \/ MarkEventAsSent(p)
    \/ FrontierCommit(p)
    \/ FrontierRollback(p)

SpecFrontier == InitSession /\ [][NextFrontier]_vars

\* ------------------------------------------------------------------ statements of the membership and invite tables
\* insertMembership: creates the row of the pair, unset, unless it exists.
insertMembership(S, t, roomNID, targetUserNID) ==
  IF Rd(S, t, "members", <<roomNID, targetUserNID>>).state # "" THEN S
  ELSE Wr(S, t, "members", <<roomNID, targetUserNID>>, [NoMembership EXCEPT !.state = "Unset"])

\* selectMembershipForUpdate: the membership state of the pair.
selectMembershipForUpdate(S, t, roomNID, targetUserNID) ==
  Rd(S, t, "members", <<roomNID, targetUserNID>>).state

\* updateMembership: replaces sender, state and EventNID of the pair's row.
updateMembership(S, t, roomNID, targetUserNID, senderUserNID, membership, eventNID) ==
  Wr(S, t, "members", <<roomNID, targetUserNID>>,
     [state |-> membership, sender |-> senderUserNID, eventNID |-> eventNID])

\* insertInviteEvent: records the invite unless its event id is recorded.
insertInviteEvent(S, t, inviteEventID, roomNID, targetUserNID, senderUserNID) ==
  IF Rd(S, t, "invites", inviteEventID).room # 0
  THEN [S |-> S, inserted |-> FALSE]
  ELSE [S |-> Wr(S, t, "invites", inviteEventID,
                 [room |-> roomNID, target |-> targetUserNID, sender |-> senderUserNID,
                  retired |-> FALSE]),
        inserted |-> TRUE]

\* The invites of the pair that are not retired.
Outstanding(S, t, roomNID, targetUserNID) ==
  {i \in InviteIDs : LET r == Rd(S, t, "invites", i)
                     IN r.room = roomNID /\ r.target = targetUserNID /\ ~r.retired}

\* updateInviteRetired: retires every outstanding invite of the pair and
\* returns their event ids.
RECURSIVE RetireAll(_, _, _)
RetireAll(S, t, ids) ==
  IF ids = {} THEN [S |-> S, ids |-> <<>>]
  ELSE LET i == CHOOSE x \in ids : TRUE
           r == RetireAll(Wr(S, t, "invites", i, [Rd(S, t, "invites", i) EXCEPT !.retired = TRUE]),
                          t, ids \ {i})
       IN [S |-> r.S, ids |-> <<i>> \o r.ids]

updateInviteRetired(S, t, roomNID, targetUserNID) ==
  RetireAll(S, t, Outstanding(S, t, roomNID, targetUserNID))

\* bulkSelectEventNID: the EventNID of each of the event ids that is stored.
bulkSelectEventNID(S, t, eventIDs) ==
  LET found == {eventIDs[i] : i \in 1..Len(eventIDs)} \cap
                 {e \in EventIDs : Rd(S, t, "events", e).nid # 0}
  IN [e \in found |-> Rd(S, t, "events", e).nid]

\* ------------------------------------------------------------------ membershipUpdater
\* Database.EventNIDs: bulkSelectEventNID run without a transaction.
EventNIDs(S, eventIDs) == bulkSelectEventNID(S, Nil, eventIDs)

\* Indexing the map EventNIDs returns: the zero value for a missing key.
MapIndex(nIDs, eventID) == IF eventID \in DOMAIN nIDs THEN nIDs[eventID] ELSE 0

\* assignRoomNID / assignEventTypeNID / assignStateKeyNID in one step:
\* select, insert when nothing is selected, select again when the insert
\* reports no row.
assignNID(S, t, fn, key) ==
  LET tbl == RegTable(fn)
      n0 == selectNID(S, t, tbl, key)
      r == insertNID(S, t, tbl, key)
      n2 == selectNID(r.S, t, tbl, key)
  IN IF n0 # 0 THEN [S |-> S, nid |-> n0, err |-> "nil"]
     ELSE IF r.nid # 0 THEN [S |-> r.S, nid |-> r.nid, err |-> "nil"]
     ELSE [S |-> r.S, nid |-> n2, err |-> IF n2 = 0 THEN "ErrNoRows" ELSE "nil"]

\* The insert of an assign waits while another transaction holds the key.
AssignFree(S, t, fn, key) ==
  selectNID(S, t, RegTable(fn), key) = 0 => Free(S, t, RegTable(fn), key)

\* membershipUpdaterTxn: creates the row of the pair if needed and reads its
\* membership state into the tracker.
membershipUpdaterTxn(S, t, roomNID, targetUserNID) ==
  LET S1 == insertMembership(S, t, roomNID, targetUserNID)
  IN [S |-> S1,
      u |-> [open |-> TRUE, txn |-> t, roomNID |-> roomNID, targetUserNID |-> targetUserNID,
             membership |-> selectMembershipForUpdate(S1, t, roomNID, targetUserNID),
             returned |-> {}]]

\* The steps of Database.MembershipUpdater in which the store can fail.
TrackerOpenFailures == {"none", "assignRoomNID", "assignStateKeyNID", "membershipUpdaterTxn"}

\* Database.MembershipUpdater: begins a transaction, assigns the NIDs of the
\* room and of the target user in it and opens the tracker on it.
MembershipUpdaterResult(S, t, roomID, targetUserID, fail) ==
  LET r == assignNID(Begin(S, t), t, "assignRoomNID", roomID)
      k == assignNID(r.S, t, "assignStateKeyNID", targetUserID)
      m == membershipUpdaterTxn(k.S, t, r.nid, k.nid)
      rerr == StmtErr(r.err, fail = "assignRoomNID")
      kerr == StmtErr(k.err, fail = "assignStateKeyNID")
      merr == StmtErr("nil", fail = "membershipUpdaterTxn")
  IN IF rerr # "nil" THEN [S |-> RollbackOnError(r.S, t), err |-> rerr, u |-> NoMembershipSession]
     ELSE IF kerr # "nil"
     THEN [S |-> RollbackOnError(k.S, t), err |-> kerr, u |-> NoMembershipSession]
     ELSE IF merr # "nil"
     THEN [S |-> RollbackOnError(m.S, t), err |-> merr, u |-> NoMembershipSession]
     ELSE [S |-> m.S, err |-> "nil", u |-> m.u]

MembershipUpdater(p) ==
  /\ pc[p] = "idle" /\ Running
  /\ UNCHANGED <<pc, fs, calls, ghost>>
  /\ ~fs[p].open /\ ~ms[p].open
  /\ \E roomID \in {"a"}, targetUserID \in {"b"}, fail \in TrackerOpenFailures :
       LET r == MembershipUpdaterResult(store, p, roomID, targetUserID, fail)
       IN /\ AssignFree(store, p, "assignRoomNID", roomID)
          /\ AssignFree(store, p, "assignStateKeyNID", targetUserID)
          /\ r.err = "nil" => Free(store, p, "members", <<r.u.roomNID, r.u.targetUserNID>>)
          /\ store' = r.S
          /\ ms' = [ms EXCEPT ![p] = r.u]
          /\ loc' = [loc EXCEPT ![p] = IF r.err = "nil" THEN LocInit
                                        ELSE [LocInit EXCEPT !.op = "MembershipUpdater",
                                                             !.err = r.err]]

\* roomRecentEventsUpdater.MembershipUpdater: opens a tracker for the
\* session's room, on no transaction.
RecentEventsMembershipUpdater(p) ==
  /\ pc[p] = "idle" /\ Running
  /\ UNCHANGED <<pc, fs, calls, ghost>>
  /\ fs[p].open /\ ~ms[p].open
  /\ \E targetUserNID \in {1} :
       LET r == membershipUpdaterTxn(store, FrontierWriteTxn(fs[p]), fs[p].roomNID, targetUserNID)
       IN /\ Free(store, FrontierWriteTxn(fs[p]), "members", <<fs[p].roomNID, targetUserNID>>)
          /\ store' = r.S
          /\ ms' = [ms EXCEPT ![p] = r.u]
          /\ loc' = [loc EXCEPT ![p] = LocInit]

\* The record of a call of process p on its tracker.
CallRecord(p, op, ev, isUpdate, ret, inserted, wrote, before, after) ==
  LET u == ms[p]
      row == <<u.roomNID, u.targetUserNID>>
      out == Outstanding(before, u.txn, u.roomNID, u.targetUserNID)
  IN [by |-> p, op |-> op, ev |-> ev, isUpdate |-> isUpdate, ret |-> ret, inserted |-> inserted,
      wrote |-> wrote,
      replay |-> ghost.last.by = p /\ ghost.last.op = op /\ ghost.last.ev = ev
                   /\ ghost.last.isUpdate = isUpdate,
      same |-> Rd(after, u.txn, "members", row) = Rd(before, u.txn, "members", row),
      all |-> /\ {ret[i] : i \in 1..Len(ret)} = out
              /\ Outstanding(after, u.txn, u.roomNID, u.targetUserNID) = {}]

\* A newly recorded invite has not been returned yet.
Invited(g, event, inserted) ==
  IF inserted THEN [g EXCEPT !.returned[event] = 0, !.standing[event] = 0] ELSE g

\* The invite events a call returned, counted.
Returned(g, ret) ==
  LET ids == {ret[i] : i \in 1..Len(ret)}
      inc(f) == [i \in InviteIDs |-> IF i \in ids /\ f[i] < 2 THEN f[i] + 1 ELSE f[i]]
  IN [g EXCEPT !.returned = inc(@), !.standing = inc(@)]

\* Whether SetToInvite runs updateMembership: u.membership != Invite.
InviteWritesAlways(membership) == TRUE

InviteWrites(membership) == membership # "Invite"

\* SetToInvite: records the invite event and, unless the tracker read Invite
\* when it was opened, sets the membership to Invite with EventNID 0.
SetToInviteResult(S, u, event) ==
  LET a == assignNID(S, u.txn, "assignStateKeyNID", EvSender(event))
      i == insertInviteEvent(a.S, u.txn, event, u.roomNID, u.targetUserNID, a.nid)
      wrote == InviteWrites(u.membership)
  IN [S |-> IF wrote THEN updateMembership(i.S, u.txn, u.roomNID, u.targetUserNID, a.nid, "Invite", 0)
                     ELSE i.S,
      inserted |-> i.inserted, wrote |-> wrote]

SetToInvite(p) ==
  /\ pc[p] = "idle" /\ Running
  /\ UNCHANGED <<pc, loc, fs, ms, calls>>
  /\ ms[p].open
  /\ \E event \in InviteIDs :
       LET u == ms[p]
           r == SetToInviteResult(store, u, event)
           row == <<u.roomNID, u.targetUserNID>>
       IN /\ AssignFree(store, u.txn, "assignStateKeyNID", EvSender(event))
          /\ Free(store, u.txn, "invites", event)
          /\ r.wrote => Free(store, u.txn, "members", row)
          /\ store' = r.S
          /\ ghost' = [Invited(ghost, event, r.inserted) EXCEPT !.last =
                         CallRecord(p, "SetToInvite", event, FALSE, <<>>, r.inserted, r.wrote,
                                    store, r.S)]

\* Whether SetToJoin retires the outstanding invites.
JoinRetiresNoInvite(isUpdate) == FALSE

JoinRetiresInvites(isUpdate) == ~isUpdate

\* Whether SetToJoin runs updateMembership: u.membership != Join || isUpdate.
JoinWritesUnlessJoin(membership, isUpdate) == membership # "Join"

JoinWrites(membership, isUpdate) == membership # "Join" \/ isUpdate

\* SetToJoin: retires the outstanding invites unless isUpdate, looks up the
\* EventNID of the join event and, unless the tracker read Join when it was
\* opened and isUpdate is false, sets the membership to Join with that EventNID.
SetToJoinResult(S, u, senderUserID, eventID, isUpdate) ==
  LET a == assignNID(S, u.txn, "assignStateKeyNID", senderUserID)
      r == IF JoinRetiresInvites(isUpdate)
           THEN updateInviteRetired(a.S, u.txn, u.roomNID, u.targetUserNID)
           ELSE [S |-> a.S, ids |-> <<>>]
      nIDs == EventNIDs(r.S, <<eventID>>)
      wrote == JoinWrites(u.membership, isUpdate)
  IN [S |-> IF wrote THEN updateMembership(r.S, u.txn, u.roomNID, u.targetUserNID, a.nid, "Join",
                                           MapIndex(nIDs, eventID))
                     ELSE r.S,
      ret |-> r.ids, wrote |-> wrote]

SetToJoin(p) ==
  /\ pc[p] = "idle" /\ Running
  /\ UNCHANGED <<pc, loc, fs, calls>>
  /\ ms[p].open
  /\ \E senderUserID \in {"a"}, eventID \in MemberEventIDs, isUpdate \in BOOLEAN :
       LET u == ms[p]
           r == SetToJoinResult(store, u, senderUserID, eventID, isUpdate)
           row == <<u.roomNID, u.targetUserNID>>
           out == Outstanding(store, u.txn, u.roomNID, u.targetUserNID)
       IN /\ AssignFree(store, u.txn, "assignStateKeyNID", senderUserID)
          /\ JoinRetiresInvites(isUpdate) => \A i \in out : Free(store, u.txn, "invites", i)
          /\ r.wrote => Free(store, u.txn, "members", row)
          /\ store' = r.S
          /\ ghost' = [Returned(ghost, r.ret) EXCEPT !.last =
                         CallRecord(p, "SetToJoin", eventID, isUpdate, r.ret, FALSE, r.wrote,
                                    store, r.S)]
          /\ ms' = [ms EXCEPT ![p].returned = IF u.txn = Nil THEN @
                                                ELSE @ \cup {r.ret[i] : i \in 1..Len(r.ret)}]

\* Whether SetToLeave runs updateMembership: u.membership != LeaveOrBan.
LeaveWritesAlways(membership) == TRUE

LeaveWrites(membership) == membership # "LeaveOrBan"

\* SetToLeave: retires the outstanding invites, looks up the EventNID of the
\* leave event and, unless the tracker read LeaveOrBan when it was opened,
\* sets the membership to LeaveOrBan with that EventNID.
SetToLeaveResult(S, u, senderUserID, eventID) ==
  LET a == assignNID(S, u.txn, "assignStateKeyNID", senderUserID)
      r == updateInviteRetired(a.S, u.txn, u.roomNID, u.targetUserNID)
      nIDs == EventNIDs(r.S, <<eventID>>)
      wrote == LeaveWrites(u.membership)
  IN [S |-> IF wrote THEN updateMembership(r.S, u.txn, u.roomNID, u.targetUserNID, a.nid,
                                           "LeaveOrBan", MapIndex(nIDs, eventID))
                     ELSE r.S,
      ret |-> r.ids, wrote |-> wrote]

SetToLeave(p) ==
  /\ pc[p] = "idle" /\ Running
  /\ UNCHANGED <<pc, loc, fs, calls>>
  /\ ms[p].open
  /\ \E senderUserID \in {"a"}, eventID \in MemberEventIDs :
       LET u == ms[p]
           r == SetToLeaveResult(store, u, senderUserID, eventID)
           row == <<u.roomNID, u.targetUserNID>>
           out == Outstanding(store, u.txn, u.roomNID, u.targetUserNID)
       IN /\ AssignFree(store, u.txn, "assignStateKeyNID", senderUserID)
          /\ \A i \in out : Free(store, u.txn, "invites", i)
          /\ r.wrote => Free(store, u.txn, "members", row)
          /\ store' = r.S
          /\ ghost' = [Returned(ghost, r.ret) EXCEPT !.last =
                         CallRecord(p, "SetToLeave", eventID, FALSE, r.ret, FALSE, r.wrote,
                                    store, r.S)]
          /\ ms' = [ms EXCEPT ![p].returned = IF u.txn = Nil THEN @
                                                ELSE @ \cup {r.ret[i] : i \in 1..Len(r.ret)}]

\* transaction.Commit on a tracker that holds a transaction.
MembershipCommit(p) ==
  /\ pc[p] = "idle" /\ Running
  /\ UNCHANGED <<pc, loc, fs, calls>>
  /\ ghost' = [ghost EXCEPT !.last = IF @.by = p THEN NoCall ELSE @]
  /\ ms[p].open /\ ms[p].txn # Nil
  /\ store' = TxCommit(store, ms[p].txn)
  /\ ms' = [ms EXCEPT ![p] = NoMembershipSession]

\* transaction.Rollback on a tracker that holds a transaction.
MembershipRollback(p) ==
  /\ pc[p] = "idle" /\ Running
  /\ UNCHANGED <<pc, loc, fs, calls>>
  /\ ms[p].open /\ ms[p].txn # Nil
  /\ store' = TxRollback(store, ms[p].txn)
  /\ ms' = [ms EXCEPT ![p] = NoMembershipSession]
  /\ ghost' = [ghost EXCEPT !.standing = [i \in InviteIDs |->
                                            IF i \in ms[p].returned THEN @[i] - 1 ELSE @[i]],
                            !.last = IF @.by = p THEN NoCall ELSE @]

\* transaction.Commit or Rollback on a tracker opened on no transaction: the
\* method is called on a nil *sql.Tx and panics, which ends the program.
MembershipEndNil(p) ==
  /\ pc[p] = "idle" /\ Running
  /\ UNCHANGED <<store, fs, ms, calls, ghost>>
  /\ ms[p].open /\ ms[p].txn = Nil
  /\ pc' = [pc EXCEPT ![p] = "panic"]
  /\ loc' = [loc EXCEPT ![p] = [LocInit EXCEPT !.op = "Commit", !.err = "panic"]]

NextMember ==
  \E p \in Procs :
    \/ MembershipUpdater(p)
    \/ GetLatestEventsForUpdate(p)
    \/ RecentEventsMembershipUpdater(p)
    \/ SetToInvite(p)
    \/ SetToJoin(p)
    \/ SetToLeave(p)
    \/ MembershipCommit(p)
    \/ MembershipRollback(p)
    \/ MembershipEndNil(p)
    \/ FrontierCommit(p)
    \/ FrontierRollback(p)

SpecMember == InitSession /\ [][NextMember]_vars

\* ------------------------------------------------------------------ claims about the registries
\* The registry each assign function is documented to intern into.
RegistryOf(fn) ==
  CASE fn = "assignRoomNID" -> "rooms"
    [] fn = "assignEventTypeNID" -> "types"
    [] fn = "assignStateKeyNID" -> "keys"

\* The committed NID of a key (0: no committed row).
Committed(tbl, key) == NidOfRow(tbl, store.db[tbl][key])

Assigned(p) == pc[p] = "done" /\ loc[p].op = "assign"

\* C1: every caller of assign, racing or not, returns without error the one
\* NID committed for its key, so all callers of one key return the same NID,
\* and that NID belongs to exactly one key of the registry.
C1_InterningUniqueness ==
  \A p \in Procs :
    Assigned(p) =>
      /\ loc[p].err = "nil"
      /\ loc[p].nid # 0
      /\ loc[p].nid = Committed(RegistryOf(loc[p].fn), loc[p].key)
      /\ \A q \in Procs :
           (Assigned(q) /\ loc[q].fn = loc[p].fn /\ loc[q].key = loc[p].key)
             => loc[q].nid = loc[p].nid
      /\ Cardinality({k \in Strs : Committed(RegistryOf(loc[p].fn), k) = loc[p].nid}) = 1

\* Two callers raced on one key: both have returned, one of them after losing
\* the insert and selecting again.
C1_Witness ==
  \E p, q \in Procs :
    /\ p # q
    /\ Assigned(p) /\ Assigned(q)
    /\ loc[p].fn = loc[q].fn /\ loc[p].key = loc[q].key
    /\ loc[p].nReselect = 1 /\ loc[q].nInsert = 1 /\ loc[q].nReselect = 0

\* No two distinct keys of a registry share an NID, pending rows included.
RegistryInjective ==
  \A tbl \in RegTables, t \in Procs \cup {Nil}, k1, k2 \in Strs :
    (k1 # k2 /\ selectNID(store, t, tbl, k1) # 0)
      => selectNID(store, t, tbl, k1) # selectNID(store, t, tbl, k2)

\* What a finished assign or lookup returned is the committed NID of its key
\* (a lookup may also have found nothing yet).
ReturnsCommittedNID ==
  \A p \in Procs :
    pc[p] = "done" =>
      /\ loc[p].op = "assign" =>
           (loc[p].err = "nil" /\ loc[p].nid = Committed(RegistryOf(loc[p].fn), loc[p].key))
      /\ loc[p].op = "lookup" =>
           loc[p].nid \in {0, Committed(RegistryOf(loc[p].fn), loc[p].key)}

\* C2: the key-to-NID mapping of every registry is injective, a committed
\* mapping is never changed or deleted, and every assign or lookup returns the
\* committed NID of its key.
C2_InjectiveAndStable ==
  [][ /\ \A tbl \in RegTables, k \in Strs :
           Committed(tbl, k) # 0 => Committed(tbl, k)' = Committed(tbl, k)
      /\ RegistryInjective'
      /\ ReturnsCommittedNID' ]_vars

\* A key was assigned, and a later lookup and a later assign of it are done.
C2_Witness ==
  \E p, q \in Procs :
    /\ p # q
    /\ Assigned(p) /\ loc[p].nInsert = 0
    /\ pc[q] = "done" /\ loc[q].op = "lookup" /\ loc[q].nid # 0
    /\ loc[p].fn = loc[q].fn /\ loc[p].key = loc[q].key
    /\ \E k \in Strs : k # loc[p].key /\ Committed(RegistryOf(loc[p].fn), k) # 0

\* ------------------------------------------------------------------ claims about the event store
Stored(p) == pc[p] = "done" /\ loc[p].op = "StoreEvent" /\ loc[p].err = "nil"

\* C3: every StoreEvent call that succeeds returns the one committed EventNID
\* of its event id, whether the calls ran one after the other or raced; that
\* NID belongs to no other event id, its body is stored, and the store holds
\* as many bodies as event rows (no second body, no body without a row).
C3_EventIdempotence ==
  /\ \A p \in Procs :
       Stored(p) =>
         /\ loc[p].eventNID # 0
         /\ loc[p].eventNID = store.db.events[loc[p].ev].nid
         /\ store.db.json[loc[p].eventNID] = EvJSON(loc[p].ev)
         /\ \A q \in Procs :
              (Stored(q) /\ loc[q].ev = loc[p].ev) => loc[q].eventNID = loc[p].eventNID
  /\ \A e1, e2 \in EventIDs :
       (e1 # e2 /\ store.db.events[e1].nid # 0)
         => store.db.events[e1].nid # store.db.events[e2].nid
  /\ {n \in 0..MaxEventNID : store.db.json[n] # ""}
       = {store.db.events[e].nid : e \in {x \in EventIDs : store.db.events[x].nid # 0}}

\* Two calls for one event id have both succeeded, one of them by selecting
\* the row the other one inserted.
C3_Witness ==
  \E p, q \in Procs :
    /\ p # q
    /\ Stored(p) /\ Stored(q)
    /\ loc[p].ev = loc[q].ev
    /\ loc[p].stage = "selected" /\ loc[q].stage = "event"

\* C10 (as claimed): Events, given EventNIDs of which k >= 1 have a stored
\* body, returns k results, one per body, when every body parses, and an error
\* and no results when one does not.
C10_EventsReturnsEveryBody ==
  \A p \in Procs :
    (pc[p] = "done" /\ loc[p].op = "Events") =>
      LET loaded == loc[p].loaded
      IN Len(loaded) >= 1 =>
           IF \A i \in 1..Len(loaded) : loaded[i].EventJSON = "wf"
           THEN /\ loc[p].err = "ok"
                /\ Len(loc[p].results) = Len(loaded)
                /\ \A i \in 1..Len(loaded) : loc[p].results[i].EventNID = loaded[i].EventNID
           ELSE loc[p].err = "error" /\ loc[p].results = <<>>

\* ------------------------------------------------------------------ claims about the state snapshot store
\* C6: no step changes the entries of a stored block or the block list of a
\* stored snapshot; every snapshot a successful AddState returned resolves, now
\* and after every later call, to the entries of its base blocks followed by
\* its own new entries (when it had any); and no call has written into the
\* caller's array.
C6_NonDestructive ==
  [][ /\ \A n \in 1..MaxCalls :
           /\ store.db.blocks[n] # <<>> => store.db.blocks'[n] = store.db.blocks[n]
           /\ store.db.snaps[n] # NoSnapshot => store.db.snaps'[n] = store.db.snaps[n]
      /\ \A i \in 1..Len(calls') :
           LET c == calls'[i]
           IN /\ c.backingAfter = c.backing
              /\ (c.err = "nil" /\ c.stateNID # 0) =>
                   /\ SubSeq(StateBlockNIDs(store', c.stateNID), 1, Len(c.base)) = c.base
                   /\ StateEntries(store', StateBlockNIDs(store', c.stateNID))
                        = StateEntries(store', c.base)
                            \o (IF c.state = <<>> THEN <<>> ELSE <<c.state>>) ]_vars

\* Two calls were made from one non-empty base block list with different
\* non-empty new entries, over an array with room after the slice, and both
\* returned a snapshot.
C6_Witness ==
  \E i, j \in 1..Len(calls) :
    /\ i < j
    /\ calls[i].base = calls[j].base /\ calls[i].base # <<>>
    /\ calls[i].state # <<>> /\ calls[j].state # <<>> /\ calls[i].state # calls[j].state
    /\ Len(calls[i].backing) > Len(calls[i].base)
    /\ calls[i].stateNID # 0 /\ calls[j].stateNID # 0

\* ------------------------------------------------------------------ claims about the frontier session
\* C4: when a session that called SetLatestEvents is ended by Rollback, the
\* room's stored frontier (latest EventNIDs, last-delivered EventNID,
\* snapshot NID) is the one stored before the session first wrote it.
C4_FrontierAtomicity ==
  [][\A p \in Procs :
       (FrontierRollback(p) /\ ghost.frontierBy = p) => Frontier(store') = ghost.undo]_vars

\* A write made through a frontier session.
FrontierSessionWrite(p) == StorePreviousEvents(p) \/ MarkEventAsSent(p) \/ SetLatestEvents(p)

\* A write made through a membership session.
MembershipSessionWrite(p) == SetToInvite(p) \/ SetToJoin(p) \/ SetToLeave(p)

\* C5: a write made through an open session leaves the committed rows, which
\* are what every other caller reads, as they were, and so does Rollback.
C5_SessionIsolation ==
  [][\A p \in Procs :
       (\/ FrontierSessionWrite(p) \/ FrontierRollback(p)
        \/ MembershipSessionWrite(p) \/ MembershipRollback(p)) => store'.db = store.db]_vars

\* C9 as stated: the stored last-delivered EventNID of room 1 is 0 or was in
\* a latest-events set stored for the room.
C9_LastSentWasInFrontier ==
  Frontier(store).lastSent \in {0} \cup ghost.everLatest

\* C9, amended: the stored last-delivered EventNID of room 1 is the
\* lastEventNIDSent argument of the latest SetLatestEvents call on the room
\* (0 before the first); it is 0 or was in a stored latest-events set
\* whenever every call passed such a value.
C9_LastSentIsLastArgument ==
  /\ Frontier(store).lastSent = ghost.lastSentArg
  /\ ghost.sentOK => Frontier(store).lastSent \in {0} \cup ghost.everLatest

C9_Witness ==
  /\ Frontier(store).lastSent # 0
  /\ Frontier(store).latest # <<>>
  /\ ghost.sentOK
  /\ \A p \in Procs : ~fs[p].open

\* ------------------------------------------------------------------ claims about the membership tracker
\* C7: a SetToJoin with isUpdate false that repeats the call made just before
\* it on the same tracker runs no updateMembership and leaves the membership
\* row (state and EventNID) as the first call left it.
C7_ReplayedJoinWritesNothing ==
  (ghost.last.op = "SetToJoin" /\ ~ghost.last.isUpdate /\ ghost.last.replay)
    => (~ghost.last.wrote /\ ghost.last.same)

\* A call that retires invites: SetToLeave, or SetToJoin with isUpdate false.
Retiring(c) == c.op = "SetToLeave" \/ (c.op = "SetToJoin" /\ ~c.isUpdate)

\* C8 as stated: an invite is returned by at most one call after it was
\* recorded.
C8_ReturnedOnce ==
  \A i \in InviteIDs : ghost.returned[i] <= 1

\* C8, amended: a retiring call returns every outstanding invite of the pair
\* and leaves none outstanding; an invite is returned by at most one call
\* whose session is not rolled back; an invite whose retirement is committed
\* stays retired.
C8_RetiredOnceUnlessRolledBack ==
  [][/\ Retiring(ghost'.last) => ghost'.last.all
     /\ \A i \in InviteIDs : ghost'.standing[i] <= 1
     /\ \A i \in InviteIDs : store.db.invites[i].retired => store'.db.invites[i].retired]_vars

C8_Witness ==
  /\ \E i \in InviteIDs : store.db.invites[i].retired /\ ghost.returned[i] = 1
  /\ Retiring(ghost.last) /\ ghost.last.ret = <<>>

\* ------------------------------------------------------------------ claims about AddState failures
\* C11: an AddState call in which selectNextStateBlockNID, bulkInsertStateData
\* or insertState fails returns a non-nil error and leaves the committed
\* blocks and snapshots as they were.
C11_NoSwallowedFailure ==
  [][calls' # calls =>
       LET c == calls'[Len(calls')]
       IN c.fail # "none" =>
            /\ c.err # "nil"
            /\ store'.db.blocks = store.db.blocks
            /\ store'.db.snaps = store.db.snaps]_vars

\* ------------------------------------------------------------------ claims about the transactions of sessions
\* The processes that hold a session with a transaction.
Holders == {p \in Procs : fs[p].open \/ (ms[p].open /\ ms[p].txn # Nil)}

\* C12: the open transactions are exactly those of the sessions held (one
\* each): an open that returned an error has rolled its transaction back,
\* and Commit and Rollback close the session's transaction; a process
\* without an open transaction has no pending write.
C12_NoLeakedTransaction ==
  /\ store.open = Holders
  /\ \A p \in Procs \ store.open : store.txw[p] = NoWrites

\* Both opens have failed after Begin, and a session was opened and ended
\* before.
C12_Witness ==
  /\ loc[1].op = "GetLatestEventsForUpdate" /\ loc[1].err = "error"
  /\ loc[2].op = "MembershipUpdater" /\ loc[2].err = "error"
  /\ store.open = {}
  /\ store.db.members[<<1, 1>>].state = "Join"

\* C13: every open tracker holds a transaction, the one in which its row was
\* created and its state read, and no two trackers of one (room, user) pair
\* are open at once: the second reads the state after the first has ended.
C13_TrackersSerialized ==
  /\ \A p \in Procs : ms[p].open => ms[p].txn # Nil
  /\ \A p, q \in Procs :
       (p # q /\ ms[p].open /\ ms[q].open)
         => <<ms[p].roomNID, ms[p].targetUserNID>> # <<ms[q].roomNID, ms[q].targetUserNID>>

\* ------------------------------------------------------------------ claims about the calls of a tracker
\* The rows a tracker u reads in the store S.
MemberRow(S, u) == Rd(S, u.txn, "members", <<u.roomNID, u.targetUserNID>>)
InviteRow(S, u, event) == Rd(S, u.txn, "invites", event)

StoredEventNID(S, eventID) == IF eventID \in EventIDs THEN S.db.events[eventID].nid ELSE 0

\* The event ids in a returned list.
Ids(ret) == {ret[i] : i \in 1..Len(ret)}

C17_SnapshotOfAddState ==
  [][calls' # calls =>
       LET c == calls'[Len(calls')]
           b == store'.seq.blocks
       IN (c.err = "nil" /\ c.stateNID # 0) =>
            /\ c.stateNID > store.seq.snaps
            /\ store.db.snaps[c.stateNID] = NoSnapshot
            /\ IF c.state # <<>>
               THEN /\ store'.db.snaps[c.stateNID].blocks = c.base \o <<b>>
                    /\ b = store.seq.blocks + 1
                    /\ store.db.blocks[b] = <<>>
                    /\ store'.db.blocks = [store.db.blocks EXCEPT ![b] = c.state]
               ELSE /\ store'.db.snaps[c.stateNID].blocks = c.base
                    /\ b = store.seq.blocks
                    /\ store'.db.blocks = store.db.blocks]_vars

\* A snapshot made of an earlier snapshot's blocks and a new block, and a
\* snapshot made of that one's blocks and no new entries.
C17_Witness ==
  \E i, j \in 1..Len(calls) :
    /\ calls[i].err = "nil" /\ calls[i].stateNID # 0
    /\ calls[i].base # <<>> /\ calls[i].state # <<>>
    /\ Len(store.db.snaps[calls[i].stateNID].blocks) = Len(calls[i].base) + 1
    /\ calls[j].err = "nil" /\ calls[j].stateNID # 0
    /\ calls[j].state = <<>>
    /\ calls[j].base = store.db.snaps[calls[i].stateNID].blocks
    /\ store.db.snaps[calls[j].stateNID].blocks = calls[j].base

\* ------------------------------------------------------------------ claims about the steps of assign
\* The statements an assign call ran, with their answers.
Ran(p) == loc[p].arg

\* C18: an assign call runs at most one insert and at most two selects; when
\* it has returned it ran the select alone and returns its NID, or the
\* select answered no row and it returns the NID of the insert, or the insert
\* too answered no row and it returns what the second select answered: the
\* NID found, or sql.ErrNoRows with no further statement.
C18_AssignSteps ==
  \A p \in Procs :
    loc[p].op = "assign" =>
      /\ loc[p].nInsert <= 1 /\ loc[p].nReselect <= 1 /\ Len(Ran(p)) <= 3
      /\ pc[p] \in {"assigned", "done"} =>
           \/ /\ Len(Ran(p)) = 1 /\ Ran(p)[1][2] # 0
              /\ loc[p].nid = Ran(p)[1][2] /\ loc[p].err = "nil"
              /\ loc[p].nInsert = 0 /\ loc[p].nReselect = 0
           \/ /\ Len(Ran(p)) = 2 /\ Ran(p)[1][2] = 0
              /\ Ran(p)[2] = <<"insert", loc[p].nid>> /\ loc[p].nid # 0 /\ loc[p].err = "nil"
              /\ loc[p].nInsert = 1 /\ loc[p].nReselect = 0
           \/ /\ Len(Ran(p)) = 3 /\ Ran(p)[1][2] = 0 /\ Ran(p)[2] = <<"insert", 0>>
              /\ Ran(p)[3] = <<"select", loc[p].nid>>
              /\ loc[p].err = IF loc[p].nid = 0 THEN "ErrNoRows" ELSE "nil"
              /\ loc[p].nInsert = 1 /\ loc[p].nReselect = 1

\* One call has returned the NID its second select found, the other has
\* returned sql.ErrNoRows after a second select that found nothing.
C18_Witness ==
  /\ pc[1] = "done" /\ loc[1].nReselect = 1 /\ loc[1].nid # 0 /\ loc[1].err = "nil"
  /\ pc[2] = "done" /\ loc[2].nReselect = 1 /\ loc[2].nid = 0 /\ loc[2].err = "ErrNoRows"

\* ------------------------------------------------------------------ claims about a failed StoreEvent
\* The step with which a StoreEvent call fails inside its third transaction.
FailsLate(p) ==
  /\ loc[p].op = "StoreEvent" /\ loc[p].stage # "failed"
  /\ loc'[p].op = "StoreEvent" /\ loc'[p].stage = "failed"

RoomAndTypeRetained(S, e) == S.db.rooms[EvRoom(e)].nid # 0 /\ S.db.types[EvType(e)] # 0

StateKeyRetained(S, e) == EvStateKey(e) # NoStateKey => S.db.keys[EvStateKey(e)] # 0

NothingLeftOfStep(p) ==
  /\ store'.txw[p] = NoWrites
  /\ store'.db.events = store.db.events /\ store'.db.json = store.db.json

\* C19 (as claimed): when StoreEvent fails at inserting the event row, at
\* selecting the existing event or at storing the body, the registry holds the
\* NIDs of the event's room id, event type and state key, and the failed step
\* has left no event row and no body, pending or committed.
C19_FailureRetainsAssignments ==
  [][\A p \in Procs :
       FailsLate(p) =>
         /\ RoomAndTypeRetained(store', loc[p].ev)
         /\ StateKeyRetained(store', loc[p].ev)
         /\ NothingLeftOfStep(p)]_vars

\* ------------------------------------------------------------------ claims about a sequence of tracker calls
\* The state a call sets.
TargetState(op) ==
  IF op = "SetToInvite" THEN "Invite" ELSE IF op = "SetToJoin" THEN "Join" ELSE "LeaveOrBan"

\* The membership row the tracker of p reads is as the tracker's own session
\* left it: it holds the target of the call p made just before, or p has made
\* no call since another tracker's and the row holds the state p read when
\* it opened the tracker.
RowAsSessionLeftIt(p) ==
  IF ghost.last.by = p
  THEN MemberRow(store, ms[p]).state = TargetState(ghost.last.op)
  ELSE MemberRow(store, ms[p]).state = ms[p].membership

\* C20 (as claimed): a SetToInvite, SetToJoin or SetToLeave call that follows
\* the calls of its own session only, each of which left its target state
\* stored, leaves its own target state stored for the pair.
C20_LastCallDecidesState ==
  [][\A p \in Procs :
       ((SetToInvite(p) \/ SetToJoin(p) \/ SetToLeave(p)) /\ RowAsSessionLeftIt(p))
         => MemberRow(store', ms[p]).state = TargetState(ghost'.last.op)]_vars

\* ------------------------------------------------------------------ claims about the event of a membership
\* The membership rows that are stored: committed, or pending in a transaction.
MemberRows ==
  {store.db.members[k] : k \in DOMAIN store.db.members}
    \cup UNION {{store.txw[p].members[k] : k \in DOMAIN store.txw[p].members} : p \in Procs}

\* The EventNIDs of the stored events.
StoredEventNIDs == {store.db.events[e].nid : e \in EventIDs} \ {0}

\* C21 (as claimed): every membership row whose state is Join or LeaveOrBan
\* has a non-zero EventNID, which is the EventNID of a stored event; a
\* SetToJoin or SetToLeave with an event id that is not stored writes no row
\* with EventNID 0.
C21_MembershipHasStoredEvent ==
  \A row \in MemberRows :
    row.state \in {"Join", "LeaveOrBan"} => row.eventNID # 0 /\ row.eventNID \in StoredEventNIDs

\* ------------------------------------------------------------------ claims about ending a session
\* The session is bound to a transaction that is open.
Bound(session) == session.txn # Nil /\ session.txn \in store.open

\* C22 (as claimed): every frontier session and every tracker a caller holds
\* is bound to an open transaction, and no Commit or Rollback on one has
\* faulted.
C22_SessionsAreBound ==
  \A p \in Procs :
    /\ fs[p].open => Bound(fs[p])
    /\ ms[p].open => Bound(ms[p])
    /\ pc[p] # "panic"

\* ------------------------------------------------------------------ claims about the transaction keys
\* No StoreEvent call that was given the key is still running.
Settled(txnKey) ==
  \A p \in Procs : (loc[p].op = "StoreEvent" /\ loc[p].txnKey = txnKey) => pc[p] = "done"

\* C23 (as claimed): GetTransactionEventID returns no error; for a key that
\* was never recorded it returns the empty id; and once the StoreEvent calls
\* given the key have returned, with or without error, the id it returns is
\* the id of an event whose row is stored.
C23_RecordedEventIsStored ==
  \A k \in TxnKeys :
    LET r == GetTransactionEventID(store, k)
    IN /\ r.err = "nil"
       /\ store.db.txns[k] = "" => r.eventID = ""
       /\ (Settled(k) /\ r.eventID # "") =>
            r.eventID \in EventIDs /\ store.db.events[r.eventID].nid # 0

====
